---- MODULE Spec2Model ----
\* Verification model of the local provisioning-profile matching engine
\* (localcodesignasset: findProfile and its filters) and of the iOS archive
\* decomposition (xcarchive: NewIosArchive and the bundle ID maps).
EXTENDS Integers, Sequences, FiniteSets, TLC

VARIABLES
    localProfiles,  \* []profileutil.ProvisioningProfileInfoModel handed to findProfile
    request,        \* the remaining parameters of findProfile, as one record
    result,         \* findProfile's return value: <<>> is nil, <<p>> is &p
    exact,          \* containsAllAppEntitlements' return value, <<>> before the call
    superset,       \* profileSupportsAppEntitlements' return value, <<>> before the call
    devices,        \* provisionsDevices' return value, <<>> before the call
    done,           \* the operations that have returned
    fs,             \* the archive directory on disk
    archive,        \* the IosArchive NewIosArchive returned
    archiveErr,     \* the error NewIosArchive returned, "" for nil
    entitlementsMap, \* the map BundleIDEntitlementsMap returned, as a set of <<key, value>>
    profileMap      \* the map BundleIDProfileInfoMap returned, as a set of <<key, value>>

matchVars == <<localProfiles, request, result, exact, superset, devices>>
archiveVars == <<fs, archive, archiveErr, entitlementsMap, profileMap>>
vars == <<matchVars, done, archiveVars>>

----------------------------------------------------------------------------
\* Bounds of the model.

\* Longest list of local profiles handed to findProfile.
MaxProfiles == 2
\* Longest list of device UDIDs (required, or provisioned by a profile).
MaxDevices == 2
\* Most extensions in a PlugIns directory (of the application, of the watch app).
MaxExtensions == 1
\* Most frameworks in the application's Frameworks directory.
MaxFrameworks == 1
\* Most missing, malformed or unreadable files in one archive.
MaxDefects == 1

\* time.Now(), counted in days.
Now == 10

----------------------------------------------------------------------------
\* Entitlement values: plist values are booleans, strings or string lists; a
\* map lookup of an absent key yields nil. Every value is a record of the same
\* shape, so that reflect.DeepEqual is record equality.

Nil == [kind |-> "nil", b |-> FALSE, s |-> "", l |-> <<>>]
Bool(x) == [kind |-> "bool", b |-> x, s |-> "", l |-> <<>>]
Str(x) == [kind |-> "string", b |-> FALSE, s |-> x, l |-> <<>>]
List(x) == [kind |-> "list", b |-> FALSE, s |-> "", l |-> x]

ICloudIdentifiersEntitlementKey == "com.apple.developer.icloud-container-identifiers"
AssociatedDomainsKey == "com.apple.developer.associated-domains"
ApsEnvironmentKey == "aps-environment"

Range(seq) == {seq[i] : i \in 1..Len(seq)}

\* entitlements[key] of a Go map: nil when the key is absent.
Lookup(ents, key) == IF key \in DOMAIN ents THEN ents[key] ELSE Nil

DeepEqual(a, b) == a = b

\* strings.ToLower on the platform names the callers pass.
ToLower(s) ==
    CASE s = "iOS" -> "ios"
      [] s = "tvOS" -> "tvos"
      [] OTHER -> s

\* The container-resolution collaborator: the containers the app requires
\* and the profile does not grant; an error when either side's value is not
\* a list of strings.
RECURSIVE MissingFrom(_, _)
MissingFrom(required, granted) ==
    IF required = <<>> THEN <<>>
    ELSE LET rest == MissingFrom(Tail(required), granted)
         IN IF Head(required) \in Range(granted) THEN rest
            ELSE <<Head(required)>> \o rest

FindMissingContainers(appEntitlements, profileEntitlements) ==
    LET app == Lookup(appEntitlements, ICloudIdentifiersEntitlementKey)
        prof == Lookup(profileEntitlements, ICloudIdentifiersEntitlementKey)
    IN IF app.kind = "nil" THEN [err |-> FALSE, missing |-> <<>>]
       ELSE IF app.kind # "list" THEN [err |-> TRUE, missing |-> <<>>]
       ELSE IF prof.kind = "nil" THEN [err |-> FALSE, missing |-> app.l]
       ELSE IF prof.kind # "list" THEN [err |-> TRUE, missing |-> <<>>]
       ELSE [err |-> FALSE, missing |-> MissingFrom(app.l, prof.l)]

----------------------------------------------------------------------------
\* The filters.

\* isActive adding minProfileDaysValid whatever its sign.
isActive_NoFloor(profile, minProfileDaysValid) ==
    (Now + minProfileDaysValid) < profile.ExpirationDate

isActive(profile, minProfileDaysValid) ==
    LET expiration == IF minProfileDaysValid > 0
                      THEN Now + minProfileDaysValid
                      ELSE Now
    IN expiration < profile.ExpirationDate

hasMatchingDistributionType(profile, distributionType) ==
    profile.ExportType = distributionType

hasMatchingBundleID(profile, bundleID) ==
    profile.BundleID = bundleID

hasMatchingPlatform(profile, platform) ==
    ToLower(platform) = profile.Type

hasMatchingLocalCertificates(profile, localCertificateSerials) ==
    LET profileCertificateSerials == profile.DeveloperCertificates
    IN \A i \in 1..Len(localCertificateSerials) :
          localCertificateSerials[i] \in Range(profileCertificateSerials)

contains(slice, item) == item \in Range(slice)

\* provisionsDevices without the shortcut for an empty deviceUDIDs.
provisionsDevices_NoEmptyShortcut(profile, deviceUDIDs) ==
    IF profile.ProvisionsAllDevices THEN TRUE
    ELSE IF Len(profile.ProvisionedDevices) = 0 THEN FALSE
    ELSE \A i \in 1..Len(deviceUDIDs) :
            contains(profile.ProvisionedDevices, deviceUDIDs[i])

provisionsDevices(profile, deviceUDIDs) ==
    IF profile.ProvisionsAllDevices \/ Len(deviceUDIDs) = 0 THEN TRUE
    ELSE IF Len(profile.ProvisionedDevices) = 0 THEN FALSE
    ELSE \A i \in 1..Len(deviceUDIDs) :
            contains(profile.ProvisionedDevices, deviceUDIDs[i])

----------------------------------------------------------------------------
\* The entitlement comparator. Both modes return false at the first required
\* key that fails, so the result is the conjunction over the required keys
\* whatever the map's iteration order.

\* containsAllAppEntitlements comparing the container key by deep-equality too.
containsAllAppEntitlements_DeepEqualOnly(profile, appEntitlements) ==
    LET profileEntitlements == profile.Entitlements
    IN \A key \in DOMAIN appEntitlements :
          DeepEqual(Lookup(profileEntitlements, key), appEntitlements[key])

containsAllAppEntitlements(profile, appEntitlements) ==
    LET profileEntitlements == profile.Entitlements
    IN \A key \in DOMAIN appEntitlements :
          LET profileEntitlementValue == Lookup(profileEntitlements, key)
              value == appEntitlements[key]
          IN IF key = ICloudIdentifiersEntitlementKey
             THEN LET r == FindMissingContainers(appEntitlements, profileEntitlements)
                  IN ~(r.err \/ Len(r.missing) > 0)
             ELSE DeepEqual(profileEntitlementValue, value)

\* supersetKeyPasses reading a key the profile lacks as false, and comparing
\* only the type of values that are not booleans.
supersetKeyPasses_Lenient(profileEntitlementValue, value) ==
    IF DeepEqual(profileEntitlementValue, value) THEN TRUE
    ELSE IF value.kind = "bool"
         THEN IF profileEntitlementValue.kind = "bool"
              THEN ~(value.b /\ ~profileEntitlementValue.b)
              ELSE IF profileEntitlementValue = Nil THEN ~value.b
              ELSE TRUE
         ELSE profileEntitlementValue.kind = value.kind

\* The superset rule for one required key that is not the container key.
supersetKeyPasses(profileEntitlementValue, value) ==
    IF DeepEqual(profileEntitlementValue, value) THEN TRUE
    ELSE IF profileEntitlementValue = Nil THEN FALSE
    ELSE IF value.kind = "bool"
         THEN IF profileEntitlementValue.kind = "bool"
              THEN ~(value.b /\ ~profileEntitlementValue.b)
              ELSE TRUE
         ELSE IF ~DeepEqual(profileEntitlementValue, value) THEN FALSE
              ELSE TRUE

\* profileSupportsAppEntitlements with FindMissingContainers' arguments swapped.
profileSupportsAppEntitlements_ContainersSwapped(profile, appEntitlements) ==
    LET profileEntitlements == profile.Entitlements
    IN \A key \in DOMAIN appEntitlements :
          IF key = ICloudIdentifiersEntitlementKey
          THEN LET r == FindMissingContainers(profileEntitlements, appEntitlements)
               IN ~(r.err \/ Len(r.missing) > 0)
          ELSE supersetKeyPasses(Lookup(profileEntitlements, key), appEntitlements[key])

\* profileSupportsAppEntitlements requiring two booleans to be equal.
profileSupportsAppEntitlements_BoolMustAgree(profile, appEntitlements) ==
    LET profileEntitlements == profile.Entitlements
    IN \A key \in DOMAIN appEntitlements :
          LET profileEntitlementValue == Lookup(profileEntitlements, key)
              value == appEntitlements[key]
          IN IF key = ICloudIdentifiersEntitlementKey
             THEN LET r == FindMissingContainers(appEntitlements, profileEntitlements)
                  IN ~(r.err \/ Len(r.missing) > 0)
             ELSE IF value.kind = "bool" /\ profileEntitlementValue.kind = "bool"
                  THEN value.b = profileEntitlementValue.b
                  ELSE supersetKeyPasses(profileEntitlementValue, value)

profileSupportsAppEntitlements(profile, appEntitlements) ==
    LET profileEntitlements == profile.Entitlements
    IN \A key \in DOMAIN appEntitlements :
          LET profileEntitlementValue == Lookup(profileEntitlements, key)
              value == appEntitlements[key]
          IN IF key = ICloudIdentifiersEntitlementKey
             THEN LET r == FindMissingContainers(appEntitlements, profileEntitlements)
                  IN ~(r.err \/ Len(r.missing) > 0)
             ELSE supersetKeyPasses(profileEntitlementValue, value)

----------------------------------------------------------------------------
\* The two predicate pipelines and the two-pass scan.

isProfileMatching(profile, platform, distributionType, bundleID, entitlements, minProfileDaysValid, certSerials, deviceUDIDs) ==
    /\ isActive(profile, minProfileDaysValid)
    /\ hasMatchingDistributionType(profile, distributionType)
    /\ hasMatchingBundleID(profile, bundleID)
    /\ hasMatchingPlatform(profile, platform)
    /\ hasMatchingLocalCertificates(profile, certSerials)
    /\ containsAllAppEntitlements(profile, entitlements)
    /\ provisionsDevices(profile, deviceUDIDs)
    /\ ~profile.XcodeManaged

\* isProfileMatchingWithSuperset with the Xcode-managed exclusion of isProfileMatching.
isProfileMatchingWithSuperset_DropManaged(profile, platform, distributionType, bundleID, entitlements, minProfileDaysValid, certSerials, deviceUDIDs) ==
    /\ isActive(profile, minProfileDaysValid)
    /\ hasMatchingDistributionType(profile, distributionType)
    /\ hasMatchingBundleID(profile, bundleID)
    /\ hasMatchingPlatform(profile, platform)
    /\ hasMatchingLocalCertificates(profile, certSerials)
    /\ profileSupportsAppEntitlements(profile, entitlements)
    /\ provisionsDevices(profile, deviceUDIDs)
    /\ ~profile.XcodeManaged

isProfileMatchingWithSuperset(profile, platform, distributionType, bundleID, entitlements, minProfileDaysValid, certSerials, deviceUDIDs) ==
    /\ isActive(profile, minProfileDaysValid)
    /\ hasMatchingDistributionType(profile, distributionType)
    /\ hasMatchingBundleID(profile, bundleID)
    /\ hasMatchingPlatform(profile, platform)
    /\ hasMatchingLocalCertificates(profile, certSerials)
    /\ profileSupportsAppEntitlements(profile, entitlements)
    /\ provisionsDevices(profile, deviceUDIDs)

\* The first loop of findProfile, from index i on.
RECURSIVE scanExact(_, _, _, _, _, _, _, _, _)
scanExact(profiles, i, platform, distributionType, bundleID, entitlements, minProfileDaysValid, certSerials, deviceUDIDs) ==
    IF i > Len(profiles) THEN <<>>
    ELSE IF isProfileMatching(profiles[i], platform, distributionType, bundleID,
                              entitlements, minProfileDaysValid, certSerials,
                              deviceUDIDs)
         THEN <<profiles[i]>>
         ELSE scanExact(profiles, i + 1, platform, distributionType, bundleID,
                        entitlements, minProfileDaysValid, certSerials, deviceUDIDs)

\* The second loop of findProfile, from index i on.
RECURSIVE scanSuperset(_, _, _, _, _, _, _, _, _)
scanSuperset(profiles, i, platform, distributionType, bundleID, entitlements, minProfileDaysValid, certSerials, deviceUDIDs) ==
    IF i > Len(profiles) THEN <<>>
    ELSE IF isProfileMatchingWithSuperset(profiles[i], platform, distributionType,
                                          bundleID, entitlements,
                                          minProfileDaysValid, certSerials,
                                          deviceUDIDs)
         THEN <<profiles[i]>>
         ELSE scanSuperset(profiles, i + 1, platform, distributionType, bundleID,
                           entitlements, minProfileDaysValid, certSerials,
                           deviceUDIDs)

\* A single scan that takes the first profile either pipeline accepts.
RECURSIVE scanEither(_, _, _, _, _, _, _, _, _)
scanEither(profiles, i, platform, distributionType, bundleID, entitlements, minProfileDaysValid, certSerials, deviceUDIDs) ==
    IF i > Len(profiles) THEN <<>>
    ELSE IF \/ isProfileMatching(profiles[i], platform, distributionType, bundleID,
                                 entitlements, minProfileDaysValid, certSerials,
                                 deviceUDIDs)
            \/ isProfileMatchingWithSuperset(profiles[i], platform, distributionType,
                                             bundleID, entitlements,
                                             minProfileDaysValid, certSerials,
                                             deviceUDIDs)
         THEN <<profiles[i]>>
         ELSE scanEither(profiles, i + 1, platform, distributionType, bundleID,
                         entitlements, minProfileDaysValid, certSerials, deviceUDIDs)

\* findProfile as one loop over both pipelines.
findProfile_SinglePass(localProfiles_, platform, distributionType, bundleID, entitlements, minProfileDaysValid, certSerials, deviceUDIDs) ==
    scanEither(localProfiles_, 1, platform, distributionType, bundleID,
               entitlements, minProfileDaysValid, certSerials, deviceUDIDs)

findProfile(localProfiles_, platform, distributionType, bundleID, entitlements, minProfileDaysValid, certSerials, deviceUDIDs) ==
    LET first == scanExact(localProfiles_, 1, platform, distributionType, bundleID,
                           entitlements, minProfileDaysValid, certSerials,
                           deviceUDIDs)
    IN IF first # <<>> THEN first
       ELSE scanSuperset(localProfiles_, 1, platform, distributionType, bundleID,
                         entitlements, minProfileDaysValid, certSerials, deviceUDIDs)

----------------------------------------------------------------------------
\* The archive on disk. A path is a pair <<kind, index>>; a bundle directory
\* records what the readers find in it: its Info.plist (missing, malformed or
\* ok, with its CFBundleIdentifier, "" when the key is absent), its
\* embedded.mobileprovision (missing, malformed or ok) and whether codesign
\* can display its executable's entitlements.

NoPath == <<"", 0>>
ArchivePath == <<"xcarchive", 0>>
AppPath == <<"app", 0>>
ExtensionPath(i) == <<"appex", i>>
WatchPath == <<"watch", 0>>
WatchExtensionPath(i) == <<"watch-appex", i>>
ClipPath == <<"clip", 0>>
FrameworkPath(i) == <<"framework", i>>

ErrInfoPlistNotExists == "Info.plist not exists"
ErrPlistParse == "failed to parse Info.plist"
ErrProfileNotExists == "profile not exists"
ErrProfileParse == "failed to parse profile"
ErrEntitlements == "failed to get entitlements"
ErrAppNotFound == "application not found on path"
ErrNoMainApp == "failed to find main app"

\* What the parsers return for the files of the bundle at path.
PlistOf(fs_, path) == [CFBundleIdentifier |-> fs_.dirs[path].bundleID]
ProfileOf(path) == [UUID |-> path]
EntitlementsOf(path) == {<<"application-identifier", path>>}
NoPlist == [CFBundleIdentifier |-> ""]
ZeroProfile == [UUID |-> NoPath]
EmptyPlistData == {}

ZeroBaseApplication ==
    [Path |-> NoPath, InfoPlist |-> NoPlist, Entitlements |-> EmptyPlistData,
     ProvisioningProfile |-> ZeroProfile]

BundleIdentifier(app) == app.InfoPlist.CFBundleIdentifier

\* getEntitlements(path, executable): the entitlements codesign displays,
\* or its error.
getEntitlements(fs_, path) ==
    IF fs_.dirs[path].entitlements = "error"
    THEN [err |-> ErrEntitlements, entitlements |-> EmptyPlistData]
    ELSE [err |-> "", entitlements |-> EntitlementsOf(path)]

\* NewIosBaseApplication keeping the identity, with empty entitlements, when getEntitlements fails.
NewIosBaseApplication_TolerateEntitlements(fs_, path) ==
    LET dir == fs_.dirs[path]
        got == getEntitlements(fs_, path)
    IN IF dir.infoPlist = "missing"
       THEN [err |-> ErrInfoPlistNotExists, app |-> ZeroBaseApplication]
       ELSE IF dir.infoPlist = "malformed"
       THEN [err |-> ErrPlistParse, app |-> ZeroBaseApplication]
       ELSE IF dir.profile = "missing"
       THEN [err |-> ErrProfileNotExists, app |-> ZeroBaseApplication]
       ELSE IF dir.profile = "malformed"
       THEN [err |-> ErrProfileParse, app |-> ZeroBaseApplication]
       ELSE [err |-> "",
             app |-> [Path |-> path, InfoPlist |-> PlistOf(fs_, path),
                      Entitlements |-> IF got.err # "" THEN EmptyPlistData
                                       ELSE got.entitlements,
                      ProvisioningProfile |-> ProfileOf(path)]]

\* NewIosBaseApplication treating a missing embedded.mobileprovision as no profile.
NewIosBaseApplication_ProfileOptional(fs_, path) ==
    LET dir == fs_.dirs[path]
        got == getEntitlements(fs_, path)
    IN IF dir.infoPlist = "missing"
       THEN [err |-> ErrInfoPlistNotExists, app |-> ZeroBaseApplication]
       ELSE IF dir.infoPlist = "malformed"
       THEN [err |-> ErrPlistParse, app |-> ZeroBaseApplication]
       ELSE IF dir.profile = "malformed"
       THEN [err |-> ErrProfileParse, app |-> ZeroBaseApplication]
       ELSE IF got.err # ""
       THEN [err |-> got.err, app |-> ZeroBaseApplication]
       ELSE [err |-> "",
             app |-> [Path |-> path, InfoPlist |-> PlistOf(fs_, path),
                      Entitlements |-> got.entitlements,
                      ProvisioningProfile |-> IF dir.profile = "missing"
                                              THEN ZeroProfile
                                              ELSE ProfileOf(path)]]

NewIosBaseApplication(fs_, path) ==
    LET dir == fs_.dirs[path]
        got == getEntitlements(fs_, path)
    IN IF dir.infoPlist = "missing"
       THEN [err |-> ErrInfoPlistNotExists, app |-> ZeroBaseApplication]
       ELSE IF dir.infoPlist = "malformed"
       THEN [err |-> ErrPlistParse, app |-> ZeroBaseApplication]
       ELSE IF dir.profile = "missing"
       THEN [err |-> ErrProfileNotExists, app |-> ZeroBaseApplication]
       ELSE IF dir.profile = "malformed"
       THEN [err |-> ErrProfileParse, app |-> ZeroBaseApplication]
       ELSE IF got.err # ""
       THEN [err |-> got.err, app |-> ZeroBaseApplication]
       ELSE [err |-> "",
             app |-> [Path |-> path, InfoPlist |-> PlistOf(fs_, path),
                      Entitlements |-> got.entitlements,
                      ProvisioningProfile |-> ProfileOf(path)]]

NewIosExtension(fs_, path) == NewIosBaseApplication(fs_, path)

\* The loop over the paths a PlugIns/*.appex search returned: the extensions
\* built so far, or the first error.
RECURSIVE buildExtensions(_, _)
buildExtensions(fs_, pths) ==
    IF pths = <<>> THEN [err |-> "", extensions |-> <<>>]
    ELSE LET extension == NewIosExtension(fs_, Head(pths))
         IN IF extension.err # "" THEN [err |-> extension.err, extensions |-> <<>>]
            ELSE LET rest == buildExtensions(fs_, Tail(pths))
                 IN IF rest.err # "" THEN rest
                    ELSE [err |-> "", extensions |-> <<extension.app>> \o rest.extensions]

ZeroWatchApplication ==
    [Path |-> NoPath, InfoPlist |-> NoPlist, Entitlements |-> EmptyPlistData,
     ProvisioningProfile |-> ZeroProfile, Extensions |-> <<>>]

NewIosWatchApplication(fs_, path) ==
    LET baseApp == NewIosBaseApplication(fs_, path)
        exts == buildExtensions(fs_, fs_.watchExtensions)
    IN IF baseApp.err # "" THEN [err |-> baseApp.err, app |-> ZeroWatchApplication]
       ELSE IF exts.err # "" THEN [err |-> exts.err, app |-> ZeroWatchApplication]
       ELSE [err |-> "",
             app |-> [Path |-> baseApp.app.Path, InfoPlist |-> baseApp.app.InfoPlist,
                      Entitlements |-> baseApp.app.Entitlements,
                      ProvisioningProfile |-> baseApp.app.ProvisioningProfile,
                      Extensions |-> exts.extensions]]

NewIosClipApplication(fs_, path) == NewIosBaseApplication(fs_, path)

\* WatchApplication and ClipApplication are pointers: <<>> is nil.
ZeroApplication ==
    [Path |-> NoPath, InfoPlist |-> NoPlist, Entitlements |-> EmptyPlistData,
     ProvisioningProfile |-> ZeroProfile, WatchApplication |-> <<>>,
     ClipApplication |-> <<>>, Extensions |-> <<>>]

NewIosApplication(fs_, path) ==
    LET baseApp == NewIosBaseApplication(fs_, path)
        watchApp == IF Len(fs_.watch) > 0
                    THEN NewIosWatchApplication(fs_, fs_.watch[1])
                    ELSE [err |-> "", app |-> ZeroWatchApplication]
        clipApp == IF Len(fs_.clip) > 0
                   THEN NewIosClipApplication(fs_, fs_.clip[1])
                   ELSE [err |-> "", app |-> ZeroBaseApplication]
        exts == buildExtensions(fs_, fs_.extensions)
    IN IF baseApp.err # "" THEN [err |-> baseApp.err, app |-> ZeroApplication]
       ELSE IF watchApp.err # "" THEN [err |-> watchApp.err, app |-> ZeroApplication]
       ELSE IF clipApp.err # "" THEN [err |-> clipApp.err, app |-> ZeroApplication]
       ELSE IF exts.err # "" THEN [err |-> exts.err, app |-> ZeroApplication]
       ELSE [err |-> "",
             app |-> [Path |-> baseApp.app.Path, InfoPlist |-> baseApp.app.InfoPlist,
                      Entitlements |-> baseApp.app.Entitlements,
                      ProvisioningProfile |-> baseApp.app.ProvisioningProfile,
                      WatchApplication |-> IF Len(fs_.watch) > 0 THEN <<watchApp.app>>
                                           ELSE <<>>,
                      ClipApplication |-> IF Len(fs_.clip) > 0 THEN <<clipApp.app>>
                                          ELSE <<>>,
                      Extensions |-> exts.extensions]]

ZeroArchive == [Path |-> NoPath, InfoPlist |-> "", Application |-> ZeroApplication]

\* The archive's Info.plist names the application (ApplicationProperties /
\* ApplicationPath) or not; fs_.appExists says whether the named path exists,
\* or else whether Products/Applications/*.app finds an application.
NewIosArchive(fs_) ==
    LET app == NewIosApplication(fs_, AppPath)
    IN IF fs_.infoPlist = "missing"
       THEN [err |-> ErrInfoPlistNotExists, archive |-> ZeroArchive]
       ELSE IF fs_.infoPlist = "malformed"
       THEN [err |-> ErrPlistParse, archive |-> ZeroArchive]
       ELSE IF ~fs_.applicationPath /\ ~fs_.appExists
       THEN [err |-> ErrNoMainApp, archive |-> ZeroArchive]
       ELSE IF ~fs_.appExists
       THEN [err |-> ErrAppNotFound, archive |-> ZeroArchive]
       ELSE IF app.err # "" THEN [err |-> app.err, archive |-> ZeroArchive]
       ELSE [err |-> "",
             archive |-> [Path |-> ArchivePath, InfoPlist |-> "ok",
                          Application |-> app.app]]

\* m[key] = value on a Go map, the map held as a set of <<key, value>> pairs.
Put(m, key, value) == {kv \in m : kv[1] # key} \cup {<<key, value>>}
Keys(m) == {kv[1] : kv \in m}
Get(m, key) == (CHOOSE kv \in m : kv[1] = key)[2]

\* <<bundleID, entitlements>> of a framework; bundleID "" when the framework
\* is skipped.
extractFrameworkInfo(fs_, frameworkPath) ==
    LET dir == fs_.dirs[frameworkPath]
        got == getEntitlements(fs_, frameworkPath)
    IN IF dir.profile = "missing" THEN <<"", EmptyPlistData>>
       ELSE IF dir.infoPlist = "missing" THEN <<"", EmptyPlistData>>
       ELSE IF dir.infoPlist = "malformed" THEN <<"", EmptyPlistData>>
       ELSE IF dir.bundleID = "" THEN <<"", EmptyPlistData>>
       ELSE IF got.err # "" THEN <<dir.bundleID, EmptyPlistData>>
       ELSE <<dir.bundleID, got.entitlements>>

\* The loop over the frameworks the Frameworks/*.framework search returned.
RECURSIVE frameworkEntitlementsLoop(_, _, _)
frameworkEntitlementsLoop(fs_, frameworks, frameworkEntitlements) ==
    IF frameworks = <<>> THEN frameworkEntitlements
    ELSE LET info == extractFrameworkInfo(fs_, Head(frameworks))
         IN frameworkEntitlementsLoop(fs_, Tail(frameworks),
                IF info[1] # "" THEN Put(frameworkEntitlements, info[1], info[2])
                ELSE frameworkEntitlements)

getFrameworkBundleIDEntitlements(fs_) ==
    IF fs_.frameworksDir THEN frameworkEntitlementsLoop(fs_, fs_.frameworks, {})
    ELSE {}

\* Puts the entries of the bundles of apps, in order, into m.
RECURSIVE putEntitlements(_, _)
putEntitlements(m, apps) ==
    IF apps = <<>> THEN m
    ELSE putEntitlements(Put(m, BundleIdentifier(Head(apps)), Head(apps).Entitlements),
                         Tail(apps))

\* Puts every entry of the map from into m (the keys of from are distinct).
RECURSIVE putAll(_, _)
putAll(m, from) ==
    IF from = {} THEN m
    ELSE LET kv == CHOOSE x \in from : TRUE
         IN putAll(Put(m, kv[1], kv[2]), from \ {kv})

BundleIDEntitlementsMap(fs_, archive_) ==
    LET app == archive_.Application
        m1 == putEntitlements({}, <<app>>)
        m2 == putEntitlements(m1, app.Extensions)
        m3 == IF app.WatchApplication # <<>>
              THEN putEntitlements(putEntitlements(m2, app.WatchApplication),
                                   app.WatchApplication[1].Extensions)
              ELSE m2
        m4 == IF app.ClipApplication # <<>>
              THEN putEntitlements(m3, app.ClipApplication)
              ELSE m3
    IN putAll(m4, getFrameworkBundleIDEntitlements(fs_))

\* <<bundleID, profile>> of a framework; bundleID "" when the framework is
\* skipped.
extractFrameworkProfileInfo(fs_, frameworkPath) ==
    LET dir == fs_.dirs[frameworkPath]
    IN IF dir.profile = "missing" THEN <<"", ZeroProfile>>
       ELSE IF dir.infoPlist = "missing" THEN <<"", ZeroProfile>>
       ELSE IF dir.infoPlist = "malformed" THEN <<"", ZeroProfile>>
       ELSE IF dir.bundleID = "" THEN <<"", ZeroProfile>>
       ELSE IF dir.profile = "malformed" THEN <<"", ZeroProfile>>
       ELSE <<dir.bundleID, ProfileOf(frameworkPath)>>

\* The loop over the frameworks the Frameworks/*.framework search returned.
RECURSIVE frameworkProfilesLoop(_, _, _)
frameworkProfilesLoop(fs_, frameworks, frameworkProfiles) ==
    IF frameworks = <<>> THEN frameworkProfiles
    ELSE LET info == extractFrameworkProfileInfo(fs_, Head(frameworks))
         IN frameworkProfilesLoop(fs_, Tail(frameworks),
                IF info[1] # "" THEN Put(frameworkProfiles, info[1], info[2])
                ELSE frameworkProfiles)

getFrameworkBundleIDProfiles(fs_) ==
    IF fs_.frameworksDir THEN frameworkProfilesLoop(fs_, fs_.frameworks, {})
    ELSE {}

\* Puts the profiles of the bundles of apps, in order, into m.
RECURSIVE putProfiles(_, _)
putProfiles(m, apps) ==
    IF apps = <<>> THEN m
    ELSE putProfiles(Put(m, BundleIdentifier(Head(apps)), Head(apps).ProvisioningProfile),
                     Tail(apps))

BundleIDProfileInfoMap(fs_, archive_) ==
    LET app == archive_.Application
        m1 == putProfiles({}, <<app>>)
        m2 == putProfiles(m1, app.Extensions)
        m3 == IF app.WatchApplication # <<>>
              THEN putProfiles(putProfiles(m2, app.WatchApplication),
                               app.WatchApplication[1].Extensions)
              ELSE m2
        m4 == IF app.ClipApplication # <<>>
              THEN putProfiles(m3, app.ClipApplication)
              ELSE m3
    IN putAll(m4, getFrameworkBundleIDProfiles(fs_))


----------------------------------------------------------------------------
\* Inputs.

\* Sequences over S of length at most n.
SeqsUpTo(S, n) == UNION {[1..k -> S] : k \in 0..n}

\* Maps from a subset of the keys of pool to values of pool[key].
MapsOver(pool) ==
    UNION {{e \in [D -> UNION {pool[k] : k \in D}] : \A k \in D : e[k] \in pool[k]} :
           D \in SUBSET (DOMAIN pool)}

NoEntitlements == [k \in {} |-> Nil]

\* A profile that matches BaseRequest in both passes.
BaseProfile ==
    [BundleID |-> "com.acme.app",
     ExportType |-> "app-store",
     Type |-> "ios",
     ExpirationDate |-> Now + 2,
     DeveloperCertificates |-> <<"c1", "c2">>,
     Entitlements |-> NoEntitlements,
     ProvisionedDevices |-> <<"d1">>,
     ProvisionsAllDevices |-> FALSE,
     XcodeManaged |-> FALSE]

BaseRequest ==
    [platform |-> "iOS",
     distributionType |-> "app-store",
     bundleID |-> "com.acme.app",
     entitlements |-> NoEntitlements,
     minProfileDaysValid |-> 1,
     certSerials |-> <<"c1">>,
     deviceUDIDs |-> <<>>]

\* The boolean entitlement of the two-pass scenarios.
AssociatedDomains(x) == [k \in {AssociatedDomainsKey} |-> Bool(x)]

\* Local profiles of the two-pass specification: expired or not, granting the
\* boolean entitlement as true, as false or not at all, tool-managed or not.
ProfilePool ==
    {[BaseProfile EXCEPT !.ExpirationDate = e, !.Entitlements = ents,
                         !.XcodeManaged = m] :
        e \in {Now, Now + 2},
        ents \in {AssociatedDomains(TRUE), AssociatedDomains(FALSE), NoEntitlements},
        m \in BOOLEAN}

RequestPool ==
    {[platform |-> pl, distributionType |-> dt, bundleID |-> b,
      entitlements |-> AssociatedDomains(x), minProfileDaysValid |-> d,
      certSerials |-> cs, deviceUDIDs |-> du] :
        pl \in {"iOS", "tvOS"},
        dt \in {"app-store", "development"},
        b \in {"com.acme.app", "com.acme.other"},
        x \in BOOLEAN,
        d \in {-1, 1},
        cs \in {<<"c1">>, <<"c2", "c3">>},
        du \in {<<>>, <<"d1">>, <<"d2">>}}

\* Entitlement values of the comparator specification, per key.
EntitlementPool ==
    [k \in {ICloudIdentifiersEntitlementKey, AssociatedDomainsKey, ApsEnvironmentKey} |->
        CASE k = ICloudIdentifiersEntitlementKey ->
                {List(<<"A">>), List(<<"A", "B">>), List(<<"A", "B", "C">>),
                 List(<<"B", "A">>), Str("A")}
          [] k = AssociatedDomainsKey ->
                {Bool(TRUE), Bool(FALSE), Str("yes")}
          [] OTHER ->
                {Str("production"), Str("development"), List(<<"production">>)}]

Unset == <<>>

InitResults ==
    /\ result = Unset
    /\ exact = Unset
    /\ superset = Unset
    /\ devices = Unset
    /\ done = {}

\* No archive on disk and none decomposed.
NoArchive ==
    /\ fs = [infoPlist |-> "missing", applicationPath |-> FALSE, appExists |-> FALSE,
             dirs |-> <<>>, extensions |-> <<>>, watch |-> <<>>,
             watchExtensions |-> <<>>, clip |-> <<>>, frameworksDir |-> FALSE,
             frameworks |-> <<>>]
    /\ archive = ZeroArchive
    /\ archiveErr = ""
    /\ entitlementsMap = {}
    /\ profileMap = {}

----------------------------------------------------------------------------
\* The two-pass specification: findProfile over lists of local profiles.

Init ==
    /\ localProfiles \in SeqsUpTo(ProfilePool, MaxProfiles)
    /\ request \in RequestPool
    /\ InitResults
    /\ NoArchive

FindProfile ==
    /\ "findProfile" \notin done
    /\ result' = findProfile(localProfiles, request.platform, request.distributionType,
                             request.bundleID, request.entitlements,
                             request.minProfileDaysValid, request.certSerials,
                             request.deviceUDIDs)
    /\ done' = done \cup {"findProfile"}
    /\ UNCHANGED <<localProfiles, request, exact, superset, devices>>
    /\ UNCHANGED archiveVars

Next == FindProfile

Spec == Init /\ [][Next]_vars

----------------------------------------------------------------------------
\* The comparator specification: one otherwise matching profile and one
\* request, over every pair of entitlement maps of EntitlementPool.

InitEnt ==
    /\ \E pe \in MapsOver(EntitlementPool) :
          localProfiles = <<[BaseProfile EXCEPT !.Entitlements = pe]>>
    /\ \E ae \in MapsOver(EntitlementPool) :
          request = [BaseRequest EXCEPT !.entitlements = ae]
    /\ InitResults
    /\ NoArchive

ContainsAllAppEntitlements ==
    /\ "containsAllAppEntitlements" \notin done
    /\ exact' = <<containsAllAppEntitlements(localProfiles[1], request.entitlements)>>
    /\ done' = done \cup {"containsAllAppEntitlements"}
    /\ UNCHANGED <<localProfiles, request, result, superset, devices>>
    /\ UNCHANGED archiveVars

ProfileSupportsAppEntitlements ==
    /\ "profileSupportsAppEntitlements" \notin done
    /\ superset' = <<profileSupportsAppEntitlements(localProfiles[1], request.entitlements)>>
    /\ done' = done \cup {"profileSupportsAppEntitlements"}
    /\ UNCHANGED <<localProfiles, request, result, exact, devices>>
    /\ UNCHANGED archiveVars

NextEnt ==
    \/ ContainsAllAppEntitlements
    \/ ProfileSupportsAppEntitlements
    \/ FindProfile

SpecEnt == InitEnt /\ [][NextEnt]_vars

----------------------------------------------------------------------------
\* The device specification: provisionsDevices over device lists.

DeviceUDIDs == {"d1", "d2", "d3"}

InitDev ==
    /\ \E pd \in SeqsUpTo(DeviceUDIDs, MaxDevices), all \in BOOLEAN :
          localProfiles = <<[BaseProfile EXCEPT !.ProvisionedDevices = pd,
                                                !.ProvisionsAllDevices = all]>>
    /\ \E du \in SeqsUpTo(DeviceUDIDs, MaxDevices) :
          request = [BaseRequest EXCEPT !.deviceUDIDs = du]
    /\ InitResults
    /\ NoArchive

ProvisionsDevices ==
    /\ "provisionsDevices" \notin done
    /\ devices' = <<provisionsDevices(localProfiles[1], request.deviceUDIDs)>>
    /\ done' = done \cup {"provisionsDevices"}
    /\ UNCHANGED <<localProfiles, request, result, exact, superset>>
    /\ UNCHANGED archiveVars

NextDev ==
    \/ ProvisionsDevices
    \/ FindProfile

SpecDev == InitDev /\ [][NextDev]_vars

----------------------------------------------------------------------------
\* The archive specification: NewIosArchive and the two bundle ID maps over
\* archives with up to MaxExtensions extensions per PlugIns directory, an
\* optional watch app and app-clip, up to MaxFrameworks frameworks and up to
\* MaxDefects defects.

ExtensionIDs == {"com.acme.app.ext", "com.acme.app"}
FrameworkIDs == {"com.acme.fw", "com.acme.app", ""}

\* A defect is <<path, file, state>>.
BundleDefects(path) ==
    {<<path, "infoPlist", "missing">>, <<path, "infoPlist", "malformed">>,
     <<path, "profile", "missing">>, <<path, "profile", "malformed">>,
     <<path, "entitlements", "error">>}

ArchiveDefects ==
    {<<ArchivePath, "infoPlist", "missing">>, <<ArchivePath, "infoPlist", "malformed">>,
     <<ArchivePath, "app", "missing">>}

RECURSIVE SubsetsUpTo(_, _)
SubsetsUpTo(S, k) ==
    IF k = 0 THEN {{}}
    ELSE LET smaller == SubsetsUpTo(S, k - 1)
         IN smaller \cup {T \cup {x} : T \in smaller, x \in S}

\* At most one state per file.
Consistent(D) ==
    \A d1 \in D, d2 \in D : (d1[1] = d2[1] /\ d1[2] = d2[2]) => d1 = d2

StateOf(D, path, file, sound) ==
    IF \E d \in D : d[1] = path /\ d[2] = file
    THEN (CHOOSE d \in D : d[1] = path /\ d[2] = file)[3]
    ELSE sound

PathsOf(nExt, hasWatch, nWatchExt, hasClip, nFw) ==
    {AppPath}
    \cup {ExtensionPath(i) : i \in 1..nExt}
    \cup (IF hasWatch THEN {WatchPath} ELSE {})
    \cup {WatchExtensionPath(i) : i \in 1..nWatchExt}
    \cup (IF hasClip THEN {ClipPath} ELSE {})
    \cup {FrameworkPath(i) : i \in 1..nFw}

BundleIDOf(path, extIDs, fwIDs) ==
    CASE path[1] = "app" -> "com.acme.app"
      [] path[1] = "appex" -> extIDs[path[2]]
      [] path[1] = "watch" -> "com.acme.app.watch"
      [] path[1] = "watch-appex" -> "com.acme.app.watch.ext"
      [] path[1] = "clip" -> "com.acme.app.clip"
      [] OTHER -> fwIDs[path[2]]

MakeArchive(applicationPath, nExt, hasWatch, nWatchExt, hasClip, frameworksDir, nFw, extIDs, fwIDs, D) ==
    [infoPlist |-> StateOf(D, ArchivePath, "infoPlist", "ok"),
     applicationPath |-> applicationPath,
     appExists |-> StateOf(D, ArchivePath, "app", "ok") = "ok",
     dirs |-> [path \in PathsOf(nExt, hasWatch, nWatchExt, hasClip, nFw) |->
                  [infoPlist |-> StateOf(D, path, "infoPlist", "ok"),
                   bundleID |-> BundleIDOf(path, extIDs, fwIDs),
                   profile |-> StateOf(D, path, "profile", "ok"),
                   entitlements |-> StateOf(D, path, "entitlements", "ok")]],
     extensions |-> [i \in 1..nExt |-> ExtensionPath(i)],
     watch |-> IF hasWatch THEN <<WatchPath>> ELSE <<>>,
     watchExtensions |-> [i \in 1..nWatchExt |-> WatchExtensionPath(i)],
     clip |-> IF hasClip THEN <<ClipPath>> ELSE <<>>,
     frameworksDir |-> frameworksDir,
     frameworks |-> [i \in 1..nFw |-> FrameworkPath(i)]]

InitArchive ==
    /\ \E applicationPath \in BOOLEAN, nExt \in 0..MaxExtensions, hasWatch \in BOOLEAN,
          hasClip \in BOOLEAN, frameworksDir \in BOOLEAN :
       \E nWatchExt \in 0..(IF hasWatch THEN MaxExtensions ELSE 0),
          nFw \in 0..(IF frameworksDir THEN MaxFrameworks ELSE 0) :
       \E extIDs \in [1..nExt -> ExtensionIDs], fwIDs \in [1..nFw -> FrameworkIDs] :
       \E D \in SubsetsUpTo(ArchiveDefects \cup
                            UNION {BundleDefects(path) :
                                   path \in PathsOf(nExt, hasWatch, nWatchExt, hasClip, nFw)},
                            MaxDefects) :
          /\ Consistent(D)
          /\ fs = MakeArchive(applicationPath, nExt, hasWatch, nWatchExt, hasClip,
                              frameworksDir, nFw, extIDs, fwIDs, D)
    /\ archive = ZeroArchive
    /\ archiveErr = ""
    /\ entitlementsMap = {}
    /\ profileMap = {}
    /\ localProfiles = <<>>
    /\ request = BaseRequest
    /\ InitResults

NewArchive ==
    /\ "NewIosArchive" \notin done
    /\ LET r == NewIosArchive(fs)
       IN /\ archive' = r.archive
          /\ archiveErr' = r.err
    /\ done' = done \cup {"NewIosArchive"}
    /\ UNCHANGED <<fs, entitlementsMap, profileMap>>
    /\ UNCHANGED matchVars

\* A method of the IosArchive value: callable once NewIosArchive has returned
\* one.
GetBundleIDEntitlementsMap ==
    /\ "NewIosArchive" \in done
    /\ archiveErr = ""
    /\ "BundleIDEntitlementsMap" \notin done
    /\ entitlementsMap' = BundleIDEntitlementsMap(fs, archive)
    /\ done' = done \cup {"BundleIDEntitlementsMap"}
    /\ UNCHANGED <<fs, archive, archiveErr, profileMap>>
    /\ UNCHANGED matchVars

GetBundleIDProfileInfoMap ==
    /\ "NewIosArchive" \in done
    /\ archiveErr = ""
    /\ "BundleIDProfileInfoMap" \notin done
    /\ profileMap' = BundleIDProfileInfoMap(fs, archive)
    /\ done' = done \cup {"BundleIDProfileInfoMap"}
    /\ UNCHANGED <<fs, archive, archiveErr, entitlementsMap>>
    /\ UNCHANGED matchVars

NextArchive ==
    \/ NewArchive
    \/ GetBundleIDEntitlementsMap
    \/ GetBundleIDProfileInfoMap

SpecArchive == InitArchive /\ [][NextArchive]_vars

----------------------------------------------------------------------------
\* Properties of the matching engine.

Min(S) == CHOOSE x \in S : \A y \in S : x <= y

Without(ents, key) == [k \in (DOMAIN ents) \ {key} |-> ents[k]]

PassesExact(p) ==
    isProfileMatching(p, request.platform, request.distributionType, request.bundleID,
                      request.entitlements, request.minProfileDaysValid,
                      request.certSerials, request.deviceUDIDs)

PassesSuperset(p) ==
    isProfileMatchingWithSuperset(p, request.platform, request.distributionType,
                                  request.bundleID, request.entitlements,
                                  request.minProfileDaysValid, request.certSerials,
                                  request.deviceUDIDs)

ExactIdx == {i \in 1..Len(localProfiles) : PassesExact(localProfiles[i])}
SupersetIdx == {i \in 1..Len(localProfiles) : PassesSuperset(localProfiles[i])}

\* The filters both passes share, stated on the profile's fields.
PassIndependentFilters(p) ==
    /\ (IF request.minProfileDaysValid > 0
        THEN Now + request.minProfileDaysValid
        ELSE Now) < p.ExpirationDate
    /\ p.ExportType = request.distributionType
    /\ p.BundleID = request.bundleID
    /\ p.Type = ToLower(request.platform)
    /\ Range(request.certSerials) \subseteq Range(p.DeveloperCertificates)
    /\ \/ p.ProvisionsAllDevices
       \/ Range(request.deviceUDIDs) \subseteq Range(p.ProvisionedDevices)

\* C1: findProfile returns the first profile in input order that passes the
\* exact pipeline if any profile passes it, even when an earlier profile
\* passes the superset pipeline only; otherwise the first profile that passes
\* the superset pipeline; otherwise nil.
C1_TwoPassFirstMatch ==
    "findProfile" \in done =>
        IF ExactIdx # {} THEN result = <<localProfiles[Min(ExactIdx)]>>
        ELSE IF SupersetIdx # {} THEN result = <<localProfiles[Min(SupersetIdx)]>>
        ELSE result = <<>>

\* An earlier profile passes the superset pipeline only and a later one, a
\* different profile, passes the exact pipeline and is returned.
C1_Witness ==
    /\ "findProfile" \in done
    /\ ExactIdx # {}
    /\ \E j \in SupersetIdx \ ExactIdx :
          /\ j < Min(ExactIdx)
          /\ localProfiles[j] # localProfiles[Min(ExactIdx)]
    /\ result = <<localProfiles[Min(ExactIdx)]>>

\* C2: the profile findProfile returns, from either pass, is never
\* tool-managed.
C2_NeverToolManaged ==
    ("findProfile" \in done /\ result # <<>>) => ~result[1].XcodeManaged

C4_ReturnedPassesSharedFilters ==
    ("findProfile" \in done /\ result # <<>>) => PassIndependentFilters(result[1])

\* A profile is returned for a negative minimum validity although an expired
\* profile precedes it in the list, with certificates and devices required.
C4_Witness ==
    /\ "findProfile" \in done
    /\ result # <<>>
    /\ request.minProfileDaysValid < 0
    /\ Len(localProfiles) > 1
    /\ localProfiles[1].ExpirationDate = Now
    /\ request.certSerials # <<>>
    /\ request.deviceUDIDs # <<>>

\* C5: whenever containsAllAppEntitlements returns true,
\* profileSupportsAppEntitlements returns true for the same profile and
\* required entitlements.
C5_ExactImpliesSuperset ==
    (exact # Unset /\ superset # Unset) => (exact[1] => superset[1])

\* Both modes accept a profile whose container list is not deep-equal to the
\* required one, next to an equal boolean entitlement.
C5_Witness ==
    /\ exact = <<TRUE>>
    /\ superset = <<TRUE>>
    /\ {ICloudIdentifiersEntitlementKey, AssociatedDomainsKey}
          \subseteq DOMAIN request.entitlements
    /\ Lookup(localProfiles[1].Entitlements, ICloudIdentifiersEntitlementKey)
          # request.entitlements[ICloudIdentifiersEntitlementKey]

ContainersOK ==
    LET r == FindMissingContainers(request.entitlements, localProfiles[1].Entitlements)
    IN ~r.err /\ r.missing = <<>>

\* C6: when the app requires the container key, each mode passes on that key
\* exactly when the collaborator reports no error and no missing container
\* (the mode's result is that, and the mode's result on the other required
\* keys); required {A,B} against granted {A,B,C} passes both modes, against
\* granted {A} fails both.
C6_ContainersBySubset ==
    ICloudIdentifiersEntitlementKey \in DOMAIN request.entitlements =>
        LET p == localProfiles[1]
            others == Without(request.entitlements, ICloudIdentifiersEntitlementKey)
            required == request.entitlements[ICloudIdentifiersEntitlementKey]
            granted == Lookup(p.Entitlements, ICloudIdentifiersEntitlementKey)
        IN /\ exact # Unset =>
                 exact[1] = (ContainersOK /\ containsAllAppEntitlements(p, others))
           /\ superset # Unset =>
                 superset[1] = (ContainersOK /\ profileSupportsAppEntitlements(p, others))
           /\ (required = List(<<"A", "B">>) /\ granted = List(<<"A", "B", "C">>)
               /\ others = NoEntitlements)
                 => (/\ exact # Unset => exact[1]
                     /\ superset # Unset => superset[1])
           /\ (required = List(<<"A", "B">>) /\ granted = List(<<"A">>))
                 => (/\ exact # Unset => ~exact[1]
                     /\ superset # Unset => ~superset[1])

\* Required containers {A,B}, granted {A,B,C}: both modes have passed.
C6_Witness ==
    /\ request.entitlements =
          [k \in {ICloudIdentifiersEntitlementKey} |-> List(<<"A", "B">>)]
    /\ Lookup(localProfiles[1].Entitlements, ICloudIdentifiersEntitlementKey)
          = List(<<"A", "B", "C">>)
    /\ exact = <<TRUE>>
    /\ superset = <<TRUE>>

\* C7: for a required key other than the container key whose required and
\* profile values are both booleans: required true against profile false
\* fails both modes and findProfile returns nothing; required false against
\* profile true fails exact mode and passes superset mode on that key.
C7_BooleanSupersetRule ==
    \A key \in (DOMAIN request.entitlements) \ {ICloudIdentifiersEntitlementKey} :
        LET p == localProfiles[1]
            value == request.entitlements[key]
            profileValue == Lookup(p.Entitlements, key)
            others == Without(request.entitlements, key)
        IN (value.kind = "bool" /\ profileValue.kind = "bool") =>
              /\ (value.b /\ ~profileValue.b) =>
                    /\ exact # Unset => ~exact[1]
                    /\ superset # Unset => ~superset[1]
                    /\ "findProfile" \in done => result = <<>>
              /\ (~value.b /\ profileValue.b) =>
                    /\ exact # Unset => ~exact[1]
                    /\ superset # Unset =>
                          superset[1] = profileSupportsAppEntitlements(p, others)

\* Required false, profile true: exact mode failed, superset mode passed and
\* findProfile returned the profile from its second pass.
C7_Witness ==
    /\ request.entitlements = AssociatedDomains(FALSE)
    /\ Lookup(localProfiles[1].Entitlements, AssociatedDomainsKey) = Bool(TRUE)
    /\ exact = <<FALSE>>
    /\ superset = <<TRUE>>
    /\ "findProfile" \in done
    /\ result = <<localProfiles[1]>>

\* C8: provisionsDevices returns true when the profile provisions all devices
\* or no device is required, whatever the profile's device list; otherwise
\* exactly when every required UDID is in the profile's device list.
C8_DeviceCoverage ==
    devices # Unset =>
        LET p == localProfiles[1]
        IN devices[1] =
              IF p.ProvisionsAllDevices \/ request.deviceUDIDs = <<>> THEN TRUE
              ELSE Range(request.deviceUDIDs) \subseteq Range(p.ProvisionedDevices)

\* No device is required and the profile, which does not provision all
\* devices, lists none: provisionsDevices returned true.
C8_Witness ==
    /\ devices = <<TRUE>>
    /\ ~localProfiles[1].ProvisionsAllDevices
    /\ request.deviceUDIDs = <<>>
    /\ localProfiles[1].ProvisionedDevices = <<>>

----------------------------------------------------------------------------
\* Properties of the archive decomposition.

\* The bundles NewIosArchive builds identities for.
ApplicationPaths ==
    {AppPath} \cup Range(fs.extensions) \cup Range(fs.watch)
    \cup Range(fs.watchExtensions) \cup Range(fs.clip)

ArchiveLevelSound == fs.infoPlist = "ok" /\ fs.appExists

ManifestAndProfilePresent(path) ==
    fs.dirs[path].infoPlist = "ok" /\ fs.dirs[path].profile = "ok"

\* The framework at index i is the last one, in search order, with its
\* bundle ID among the frameworks extractFrameworkInfo keeps.
LastKeptWithItsID(i) ==
    \A j \in (i + 1)..Len(fs.frameworks) :
        extractFrameworkInfo(fs, fs.frameworks[j])[1] # fs.dirs[fs.frameworks[i]].bundleID

\* C9 as stated: with manifests and profiles present everywhere, a failure
\* to extract entitlements of any bundle does not abort the decomposition.
C9_EntitlementFailureNeverAborts ==
    ("NewIosArchive" \in done
     /\ ArchiveLevelSound
     /\ \A path \in ApplicationPaths : ManifestAndProfilePresent(path))
    => archiveErr = ""

\* C9, amended: a failure to extract entitlements is tolerated for
\* frameworks only. A framework with embedded profile, manifest and bundle ID
\* whose extraction fails is kept in the entitlements map with empty
\* entitlements; the same failure in the primary application, an extension,
\* the watch application, one of its extensions or the app-clip aborts
\* NewIosArchive with that error and no archive value.
C9_OnlyFrameworksTolerateEntitlementFailure ==
    /\ ("NewIosArchive" \in done
        /\ \E path \in ApplicationPaths : fs.dirs[path].entitlements = "error")
       => /\ archiveErr # ""
          /\ archive = ZeroArchive
          /\ (ArchiveLevelSound
              /\ \A path \in ApplicationPaths : ManifestAndProfilePresent(path))
             => archiveErr = ErrEntitlements
    /\ "BundleIDEntitlementsMap" \in done =>
          \A i \in 1..Len(fs.frameworks) :
             LET dir == fs.dirs[fs.frameworks[i]]
             IN (/\ fs.frameworksDir
                 /\ dir.profile # "missing"
                 /\ dir.infoPlist = "ok"
                 /\ dir.bundleID # ""
                 /\ dir.entitlements = "error"
                 /\ LastKeptWithItsID(i))
                => /\ dir.bundleID \in Keys(entitlementsMap)
                   /\ Get(entitlementsMap, dir.bundleID) = EmptyPlistData

\* The archive decomposed and its entitlements map holds, with empty
\* entitlements, a framework whose entitlement extraction failed.
C9_Witness ==
    /\ "BundleIDEntitlementsMap" \in done
    /\ archiveErr = ""
    /\ \E i \in 1..Len(fs.frameworks) :
          LET dir == fs.dirs[fs.frameworks[i]]
          IN /\ dir.entitlements = "error"
             /\ dir.bundleID = "com.acme.fw"
             /\ <<dir.bundleID, EmptyPlistData>> \in entitlementsMap

\* Every bundle that is present is sound: manifest, profile and entitlements.
ApplicationTreeSound ==
    \A path \in ApplicationPaths :
        ManifestAndProfilePresent(path) /\ fs.dirs[path].entitlements = "ok"

\* C10: NewIosArchive returns an error and no archive value when the archive
\* manifest, the primary application, its manifest or its embedded profile is
\* missing; it never fails for the absence of extensions, watch app, app-clip,
\* Frameworks directory or qualifying frameworks: whatever is present being
\* sound, it succeeds with as many extensions, watch apps and clips as are on
\* disk, so an archive with only a sound primary application yields no watch
\* app, no clip and no extensions.
C10_FailureSemantics ==
    "NewIosArchive" \in done =>
        /\ (\/ fs.infoPlist = "missing"
            \/ ~fs.appExists
            \/ fs.dirs[AppPath].infoPlist = "missing"
            \/ fs.dirs[AppPath].profile = "missing")
           => (archiveErr # "" /\ archive = ZeroArchive)
        /\ (ArchiveLevelSound /\ ApplicationTreeSound)
           => /\ archiveErr = ""
              /\ archive.Application.Path = AppPath
              /\ Len(archive.Application.Extensions) = Len(fs.extensions)
              /\ Len(archive.Application.WatchApplication) = Len(fs.watch)
              /\ Len(archive.Application.ClipApplication) = Len(fs.clip)
              /\ (fs.watch # <<>> =>
                    Len(archive.Application.WatchApplication[1].Extensions)
                       = Len(fs.watchExtensions))

\* An archive with a sound primary application and nothing else, not even a
\* Frameworks directory, decomposed with no watch app, no clip, no extension.
C10_Witness ==
    /\ "NewIosArchive" \in done
    /\ fs.extensions = <<>> /\ fs.watch = <<>> /\ fs.clip = <<>>
    /\ ~fs.frameworksDir
    /\ archiveErr = ""
    /\ archive.Application.Path = AppPath
    /\ archive.Application.WatchApplication = <<>>
    /\ archive.Application.ClipApplication = <<>>
    /\ archive.Application.Extensions = <<>>

----------------------------------------------------------------------------
\* Properties of the bundle ID maps.

\* The identities NewIosArchive built, in the order the maps insert them.
BuiltIdentities ==
    LET app == archive.Application
    IN <<app>> \o app.Extensions \o app.WatchApplication
       \o (IF app.WatchApplication # <<>> THEN app.WatchApplication[1].Extensions
           ELSE <<>>)
       \o app.ClipApplication

\* A framework qualifies when it carries an embedded profile and a manifest
\* with a bundle ID.
Qualifies(path) ==
    /\ fs.frameworksDir
    /\ fs.dirs[path].profile # "missing"
    /\ fs.dirs[path].infoPlist = "ok"
    /\ fs.dirs[path].bundleID # ""

RECURSIVE SelectQualifying(_)
SelectQualifying(paths) ==
    IF paths = <<>> THEN <<>>
    ELSE (IF Qualifies(Head(paths)) THEN <<Head(paths)>> ELSE <<>>)
         \o SelectQualifying(Tail(paths))

QualifyingFrameworks == SelectQualifying(fs.frameworks)

\* <<bundle ID, entitlements>> of every identity, in insertion order.
EntitlementEntries ==
    [i \in 1..Len(BuiltIdentities) |->
        <<BundleIdentifier(BuiltIdentities[i]), BuiltIdentities[i].Entitlements>>]
    \o [i \in 1..Len(QualifyingFrameworks) |->
        <<fs.dirs[QualifyingFrameworks[i]].bundleID,
          IF fs.dirs[QualifyingFrameworks[i]].entitlements = "error"
          THEN EmptyPlistData
          ELSE EntitlementsOf(QualifyingFrameworks[i])>>]

\* <<bundle ID, profile>> of every identity, in insertion order.
ProfileEntries ==
    [i \in 1..Len(BuiltIdentities) |->
        <<BundleIdentifier(BuiltIdentities[i]), BuiltIdentities[i].ProvisioningProfile>>]
    \o [i \in 1..Len(QualifyingFrameworks) |->
        <<fs.dirs[QualifyingFrameworks[i]].bundleID, ProfileOf(QualifyingFrameworks[i])>>]

\* The entries that no later entry with the same key replaces.
LastWins(entries) ==
    {entries[i] : i \in {i \in 1..Len(entries) :
                            \A j \in (i + 1)..Len(entries) : entries[j][1] # entries[i][1]}}

\* C11: each of the two maps has an entry for the bundle ID of every
\* identity (primary app, its extensions, watch app, its extensions, clip,
\* qualifying frameworks) and no other key, and holds for each bundle ID the
\* value of the identity inserted last, a qualifying framework replacing any
\* application, extension, watch or clip entry with its bundle ID.
C11_MapsHoldEveryIdentityLastWins ==
    /\ "BundleIDEntitlementsMap" \in done =>
          /\ Keys(entitlementsMap) = {EntitlementEntries[i][1] : i \in 1..Len(EntitlementEntries)}
          /\ entitlementsMap = LastWins(EntitlementEntries)
    /\ "BundleIDProfileInfoMap" \in done =>
          /\ Keys(profileMap) = {ProfileEntries[i][1] : i \in 1..Len(ProfileEntries)}
          /\ profileMap = LastWins(ProfileEntries)

----------------------------------------------------------------------------
\* Further properties of the entitlement comparator.

\* C12: for every required key other than the container key whose required
\* value differs from the profile's value, profileSupportsAppEntitlements
\* returns false when the profile does not define the key, whatever the
\* required value (a required boolean false included), and returns false
\* when the required value is not a boolean.
C12_NoPermissivenessOutsideBooleans ==
    superset # Unset =>
        \A key \in (DOMAIN request.entitlements) \ {ICloudIdentifiersEntitlementKey} :
            LET value == request.entitlements[key]
                profileValue == Lookup(localProfiles[1].Entitlements, key)
            IN value # profileValue =>
                  /\ key \notin DOMAIN localProfiles[1].Entitlements => ~superset[1]
                  /\ value.kind # "bool" => ~superset[1]

\* The only required entitlement is a boolean false, the profile does not
\* define its key, and profileSupportsAppEntitlements returned false.
C12_Witness ==
    /\ request.entitlements = AssociatedDomains(FALSE)
    /\ AssociatedDomainsKey \notin DOMAIN localProfiles[1].Entitlements
    /\ superset = <<FALSE>>

----------------------------------------------------------------------------
\* C13: for every archive NewIosArchive decomposed, the entitlements map and
\* the profile map have the same keys.
C13_MapsHaveTheSameKeys ==
    ("BundleIDEntitlementsMap" \in done /\ "BundleIDProfileInfoMap" \in done)
    => Keys(entitlementsMap) = Keys(profileMap)

====
